---------------------------- MODULE Spec2Model ----------------------------
(***************************************************************************)
(* Model of the two command-line utilities of the repository:              *)
(*                                                                         *)
(*   scripts/check_copyright_notice.py      (the header checker)           *)
(*   scripts/generate_junit_to_html_report.py (the report generator)       *)
(*                                                                         *)
(* The two programs share nothing.  SpecHeader runs the header checker,    *)
(* SpecReport runs the report generator from its command line to its exit  *)
(* code, SpecPivot applies build_pivot to bounded lists of records.        *)
(*                                                                         *)
(* Texts of the header checker are sequences of tokens (atomic fragments   *)
(* of text); "substring" is "contiguous subsequence of tokens".  Names of  *)
(* the report generator (class names, test names, directory names) are     *)
(* sequences of code points, compared as Python compares str values.       *)
(***************************************************************************)
EXTENDS Integers, Sequences, FiniteSets, TLC

VARIABLES
    \* ---- header checker (check_copyright_notice.py) ----
    copyright_text,   \* args.copyright_text
    nfiles,           \* len(args.filenames)
    hpc,              \* position in main: "start", "loop", "done"
    ret,              \* main's ret
    checked_files,    \* main's checked_files
    history,          \* history: per file checked, its kind and what check_file did
    last,             \* history: the file checked last and what check_file did
    hexit,            \* the value main returns (-1 while running)
    \* ---- report generator (generate_junit_to_html_report.py) ----
    isdir,            \* os.path.isdir(input_folder)
    xml_files,        \* glob.glob(...), in enumeration order
    rpc,              \* position in main
    fileno,           \* number of xml_files already handled by the loop
    records,          \* collect_results' records
    warnings,         \* history: indices of the files whose parse was reported
    df,               \* the data frame handed to build_pivot
    pivot,            \* the result of build_pivot
    html,             \* the result of generate_html
    written,          \* whether the output file was written
    exc,              \* the exception in flight or handled ("none" if none)
    excStage,         \* the call of main's try block that raised it
    rexit             \* the process exit code (-1 while running)

hvars == <<copyright_text, nfiles, hpc, ret, checked_files, history, last, hexit>>
rvars == <<isdir, xml_files, rpc, fileno, records, warnings, df, pivot, html,
           written, exc, excStage, rexit>>
vars == <<hvars, rvars>>

-----------------------------------------------------------------------------
(* Bounds *)

MaxFiles == 2
MaxCommentLen == 3

-----------------------------------------------------------------------------
(* Sequences *)

\* All sequences over S of length lo..hi.
SeqsOf(S, lo, hi) == UNION {[1..n -> S] : n \in lo..hi}

\* s[i..j] occurs in text: what `sub in text` computes on str values.
Contains(text, sub) ==
    \E i \in 0..(Len(text) - Len(sub)) : SubSeq(text, i + 1, i + Len(sub)) = sub

-----------------------------------------------------------------------------
(* Header checker: texts, files and the libraries' answers *)

NL == "\n"
CopyrightToken == "Copyright (c) 2025"
OwnerToken == "Arm Limited"
LicenseToken == "SPDX-License-Identifier: Apache-2.0"

Alphabet == {CopyrightToken, OwnerToken, LicenseToken}

LICENSE_TEXT == <<LicenseToken>>

\* The values of --copyright-text: absent or empty, one fragment, two fragments.
CopyrightTexts == {<<>>, <<CopyrightToken>>, <<CopyrightToken, OwnerToken>>}

CommentTexts == SeqsOf(Alphabet, 0, MaxCommentLen)

\* What the comment parser finds in a file: no comment, one comment of up to
\* MaxCommentLen tokens, or two one-token comments.
CommentLists ==
    {<<>>} \cup {<<t>> : t \in CommentTexts}
           \cup {<<<<a>>, <<b>>>> : a \in Alphabet, b \in Alphabet}

SupportedMimes == {"text/x-c", "text/x-go"}

\* A file on disk: its size, what libmagic answers for it ("error": it
\* raises), whether the comment parser can parse it, and its comments.
\* Every name of the list is the name of an existing file, so that
\* os.path.getsize returns.
Files ==
    {[size |-> 0, magic |-> "text/plain", syntax_ok |-> TRUE, comments |-> <<>>],
     [size |-> 1, magic |-> "error", syntax_ok |-> TRUE, comments |-> <<>>],
     [size |-> 1, magic |-> "application/octet-stream", syntax_ok |-> TRUE,
      comments |-> <<>>],
     [size |-> 1, magic |-> "text/x-c", syntax_ok |-> FALSE, comments |-> <<>>]}
    \cup
    {[size |-> 1, magic |-> m, syntax_ok |-> TRUE, comments |-> c] :
        m \in {"text/x-c", "text/plain"}, c \in CommentLists}

getsize(f) == f.size

from_file(f) == f.magic

\* comment_parser.extract_comments(filename, mime): raises for a MIME type it
\* has no parser for and for a file it cannot parse.
extract_comments(f, mime) ==
    IF mime \notin SupportedMimes \/ ~f.syntax_ok
    THEN [raised |-> TRUE, comments |-> <<>>]
    ELSE [raised |-> FALSE, comments |-> f.comments]

\* re.compile(re.escape(text)): a pattern that matches text literally.
compile_escaped(text) == [literal |-> text]

\* pattern.search(s) is not None
search(pattern, s) == Contains(s, pattern.literal)

\* The loop of lines 44-45: comments += comment.text() + '\n'
RECURSIVE JoinComments(_)
JoinComments(cs) ==
    IF cs = <<>> THEN <<>>
    ELSE Head(cs) \o <<NL>> \o JoinComments(Tail(cs))

-----------------------------------------------------------------------------
(* Header checker: check_file *)

Outcome(r, lg, m, e) == [ret |-> r, log |-> lg, mime_called |-> m, extract_called |-> e]

LogLine(level, msg, parts) == [level |-> level, msg |-> msg, parts |-> parts]

\* Variant: the empty file is not skipped and fails the check.
EmptyFileChecked == Outcome(1, <<LogLine("ERROR", "Copyright check error(s)", <<"copyright", "license">>)>>, TRUE, TRUE)
\* Lines 27-29.
EmptyFileOutcome == Outcome(0, <<LogLine("INFO", "Skipping empty file", <<>>)>>, FALSE, FALSE)

\* Lines 33-35.
MimeFailureOutcome == Outcome(1, <<LogLine("ERROR", "Could not determine MIME type", <<>>)>>, TRUE, FALSE)

\* Variant: the extraction error is swallowed and the file passes.
ExtractFailureIgnored == Outcome(0, <<>>, TRUE, TRUE)
\* Lines 46-48.
ExtractFailureOutcome == Outcome(1, <<LogLine("ERROR", "Failed to parse comments", <<>>)>>, TRUE, TRUE)

\* Lines 58-62: the parts of errstr, in the order they are appended.
errstr(copyrightfound, licensefound) ==
    (IF ~copyrightfound THEN <<"copyright">> ELSE <<>>)
    \o (IF ~licensefound THEN <<"license">> ELSE <<>>)

\* Variant: one of the two texts is enough to pass.
VerdictEither(copyrightfound, licensefound) ==
    IF copyrightfound \/ licensefound
    THEN Outcome(0, <<>>, TRUE, TRUE)
    ELSE Outcome(1, <<LogLine("ERROR", "Copyright check error(s)",
                              errstr(copyrightfound, licensefound))>>, TRUE, TRUE)
\* Lines 55-65.
Verdict(copyrightfound, licensefound) ==
    IF copyrightfound /\ licensefound
    THEN Outcome(0, <<>>, TRUE, TRUE)
    ELSE Outcome(1, <<LogLine("ERROR", "Copyright check error(s)",
                              errstr(copyrightfound, licensefound))>>, TRUE, TRUE)

check_file(f, copyright_reg_exp) ==
    IF getsize(f) = 0 THEN EmptyFileOutcome
    ELSE IF from_file(f) = "error" THEN MimeFailureOutcome
    ELSE LET mime_type == IF from_file(f) = "text/plain" THEN "text/x-go"
                          ELSE from_file(f)
             ex == extract_comments(f, mime_type)
         IN  IF ex.raised THEN ExtractFailureOutcome
             ELSE LET comments == JoinComments(ex.comments)
                      copyrightfound == search(copyright_reg_exp, comments)
                      licensefound == Contains(comments, LICENSE_TEXT)
                  IN  Verdict(copyrightfound, licensefound)

-----------------------------------------------------------------------------
(* Header checker: main *)

\* Variant: ret = r, the last result overwrites the earlier ones.
OrIntoOverwriting(a, b) == b
\* ret |= r, on the values 0 and 1.
OrInto(a, b) == IF a = 1 \/ b = 1 THEN 1 ELSE 0

\* What the disk holds under a name: an empty file, a file libmagic fails on,
\* a file the comment parser fails on (no parser for its type, even with
\* text/plain read as text/x-go, or a syntax error), or a file it reads.
FileKind(f) ==
    IF f.size = 0 THEN "empty"
    ELSE IF f.magic = "error" THEN "mime_failure"
    ELSE IF f.magic \notin (SupportedMimes \cup {"text/plain"}) \/ ~f.syntax_ok
         THEN "extract_failure"
    ELSE "readable"

Summary(f, out) ==
    [kind |-> FileKind(f), ret |-> out.ret, mime_called |-> out.mime_called,
     extract_called |-> out.extract_called]

NoFile == [size |-> 0, magic |-> "none", syntax_ok |-> TRUE, comments |-> <<>>]
NoLast == [file |-> NoFile, out |-> Outcome(0, <<>>, FALSE, FALSE)]

HeaderIdle ==
    /\ copyright_text = <<>>
    /\ nfiles = 0
    /\ hpc = "idle"
    /\ ret = 0
    /\ checked_files = 0
    /\ history = <<>>
    /\ last = NoLast
    /\ hexit = -1

HeaderInit ==
    /\ copyright_text \in CopyrightTexts
    /\ nfiles \in 0..MaxFiles
    /\ hpc = "start"
    /\ ret = 0
    /\ checked_files = 0
    /\ history = <<>>
    /\ last = NoLast
    /\ hexit = -1

\* Lines 80-82: no copyright text, return 1 before any file is looked at.
HNoCopyrightText ==
    /\ hpc = "start"
    /\ copyright_text = <<>>
    /\ hpc' = "done"
    /\ hexit' = 1
    /\ UNCHANGED <<copyright_text, nfiles, ret, checked_files, history, last, rvars>>

\* Lines 84-88.
HBegin ==
    /\ hpc = "start"
    /\ copyright_text # <<>>
    /\ ret' = 0
    /\ checked_files' = 0
    /\ hpc' = "loop"
    /\ UNCHANGED <<copyright_text, nfiles, history, last, hexit, rvars>>

\* Lines 89-91: one iteration; the file is whatever is on disk under the name.
HCheckNext ==
    /\ hpc = "loop"
    /\ checked_files < nfiles
    /\ \E f \in Files :
         LET out == check_file(f, compile_escaped(copyright_text))
         IN  /\ checked_files' = checked_files + 1
             /\ ret' = OrInto(ret, out.ret)
             /\ history' = Append(history, Summary(f, out))
             /\ last' = [file |-> f, out |-> out]
    /\ UNCHANGED <<copyright_text, nfiles, hpc, hexit, rvars>>

\* Lines 93-97.
HReturn ==
    /\ hpc = "loop"
    /\ checked_files = nfiles
    /\ hpc' = "done"
    /\ hexit' = ret
    /\ UNCHANGED <<copyright_text, nfiles, ret, checked_files, history, last, rvars>>

HeaderNext == HNoCopyrightText \/ HBegin \/ HCheckNext \/ HReturn

-----------------------------------------------------------------------------
(* Report generator: names and their order *)

\* str values are sequences of code points.
STR_TEST_RESULTS == <<116, 101, 115, 116, 45, 114, 101, 115, 117, 108, 116, 115, 45>>   \* "test-results-"
UNKNOWN_CLASS == <<117, 110, 107, 110, 111, 119, 110, 46, 99, 108, 97, 115, 115>>   \* "unknown.class"
UNKNOWN_TEST == <<117, 110, 107, 110, 111, 119, 110, 46, 116, 101, 115, 116>>   \* "unknown.test"
STR_LIN == <<108, 105, 110>>   \* "lin"
STR_WIN == <<119, 105, 110>>   \* "win"
STR_A == <<65>>   \* "A"
STR_B == <<66>>   \* "B"
STR_T == <<116>>   \* "t"
STR_T1 == <<116, 49>>   \* "t1"

\* a < b on str values: by code point, a proper prefix first.
RECURSIVE LexLess(_, _)
LexLess(a, b) ==
    IF a = <<>> THEN b # <<>>
    ELSE IF b = <<>> THEN FALSE
    ELSE IF Head(a) # Head(b) THEN Head(a) < Head(b)
    ELSE LexLess(Tail(a), Tail(b))

\* p < q on tuples (classname, testcase).
PairLess(p, q) == LexLess(p[1], q[1]) \/ (p[1] = q[1] /\ LexLess(p[2], q[2]))

\* s.replace(old, ""): every occurrence of old removed, scanning left to right.
RECURSIVE RemoveAll(_, _)
RemoveAll(s, old) ==
    IF Len(s) < Len(old) \/ old = <<>> THEN s
    ELSE IF SubSeq(s, 1, Len(old)) = old
         THEN RemoveAll(SubSeq(s, Len(old) + 1, Len(s)), old)
         ELSE <<Head(s)>> \o RemoveAll(Tail(s), old)

\* Line 85: the platform label of the directory that holds the file.
platform_of(dirname) == RemoveAll(dirname, STR_TEST_RESULTS)

-----------------------------------------------------------------------------
(* Report generator: the input *)

MaxXmlFiles == 2
MaxTestcases == 1
MaxRecords == 3

\* Names of the directories that hold XML files: with and without the prefix.
\* No platform label is one of the headers "classname", "testcase", "S.No".
DirNames == {STR_TEST_RESULTS \o STR_LIN, STR_WIN}

\* A <testcase> element: its attributes and whether it has a <failure> and a
\* <skipped> child.
Testcase(attrib, failure, skipped) ==
    [attrib |-> attrib, failure |-> failure, skipped |-> skipped]

NoAttrib == [k \in {} |-> <<>>]
FullAttrib == [k \in {"classname", "name"} |-> IF k = "classname" THEN STR_A ELSE STR_T]

\* The four combinations of children; the element with both children is the
\* one that carries no attribute.
Testcases ==
    {Testcase(FullAttrib, FALSE, FALSE), Testcase(FullAttrib, TRUE, FALSE),
     Testcase(FullAttrib, FALSE, TRUE), Testcase(NoAttrib, TRUE, TRUE)}

\* An XML file: the directory it lies in; whether ET.parse accepts it ("ok"),
\* raises ParseError ("malformed") or raises another error ("unreadable");
\* its testcase elements in document order.
XmlFile(dir, kind, tcs) == [dir |-> dir, kind |-> kind, testcases |-> tcs]

XmlFiles ==
    {XmlFile(d, k, <<>>) : d \in DirNames, k \in {"malformed", "unreadable"}}
    \cup {XmlFile(d, "ok", tcs) : d \in DirNames, tcs \in SeqsOf(Testcases, 0, MaxTestcases)}

STATUSES == {"PASS", "FAIL", "SKIPPED"}

Record(classname, testcase, platform, status) ==
    [classname |-> classname, testcase |-> testcase, platform |-> platform,
     status |-> status]

\* The records build_pivot is applied to under SpecPivot.
PivotRecords ==
    {Record(c, t, p, s) : c \in {STR_A, STR_B}, t \in {STR_T, STR_T1},
                          p \in {STR_LIN, STR_WIN}, s \in STATUSES}

-----------------------------------------------------------------------------
(* Report generator: collect_results *)

\* tc.attrib.get(key, default)
attrib_get(attrib, key, default) ==
    IF key \in DOMAIN attrib THEN attrib[key] ELSE default

\* Variant: skipped is tested before failure.
status_of_skipped_first(tc) ==
    IF tc.skipped THEN "SKIPPED"
    ELSE IF tc.failure THEN "FAIL"
    ELSE "PASS"
\* Lines 91-96.
status_of(tc) ==
    IF tc.failure THEN "FAIL"
    ELSE IF tc.skipped THEN "SKIPPED"
    ELSE "PASS"

\* Lines 89-102: the record of one testcase element.
record_of(tc, platform) ==
    Record(attrib_get(tc.attrib, "classname", UNKNOWN_CLASS),
           attrib_get(tc.attrib, "name", UNKNOWN_TEST),
           platform, status_of(tc))

\* Lines 88-102: the records of the testcase elements of a parsed file.
RECURSIVE records_of(_, _)
records_of(tcs, platform) ==
    IF tcs = <<>> THEN <<>>
    ELSE <<record_of(Head(tcs), platform)>> \o records_of(Tail(tcs), platform)

\* Variant: a file that fails to parse discards the records collected so far.
parse_file_resetting(file, recs) ==
    IF file.kind = "ok"
    THEN recs \o records_of(file.testcases, platform_of(file.dir))
    ELSE <<>>
\* Lines 86-106: what one file adds to records.
parse_file(file, recs) ==
    IF file.kind = "ok"
    THEN recs \o records_of(file.testcases, platform_of(file.dir))
    ELSE recs

-----------------------------------------------------------------------------
(* Report generator: build_pivot *)

EMOJI_MAP ==
    [s \in {"PASS", "FAIL", "SKIPPED", "MISSING"} |->
        CASE s = "PASS" -> "U+2705"
          [] s = "FAIL" -> "U+274C"
          [] s = "SKIPPED" -> "U+26A0 U+FE0F"
          [] s = "MISSING" -> "U+1F6AB"]

PairsOf(d) == {<<d[i].classname, d[i].testcase>> : i \in 1..Len(d)}
PlatformsOf(d) == {d[i].platform : i \in 1..Len(d)}

\* The records of d, by position, of one pair on one platform.
Group(d, pair, platform) ==
    {i \in 1..Len(d) : /\ d[i].classname = pair[1]
                       /\ d[i].testcase = pair[2]
                       /\ d[i].platform = platform}

Min(S) == CHOOSE x \in S : \A y \in S : x <= y
Max(S) == CHOOSE x \in S : \A y \in S : x >= y

\* The pairs in the order of their first record in d.
RECURSIVE FirstSeenOrder(_)
FirstSeenOrder(d) ==
    IF d = <<>> THEN <<>>
    ELSE LET front == FirstSeenOrder(SubSeq(d, 1, Len(d) - 1))
             p == <<d[Len(d)].classname, d[Len(d)].testcase>>
         IN  IF \E i \in 1..Len(front) : front[i] = p THEN front
             ELSE Append(front, p)

RECURSIVE SortPairs(_)
SortPairs(S) ==
    IF S = {} THEN <<>>
    ELSE LET m == CHOOSE x \in S : \A y \in S : y = x \/ PairLess(x, y)
         IN  <<m>> \o SortPairs(S \ {m})

RECURSIVE SortNames(_)
SortNames(S) ==
    IF S = {} THEN <<>>
    ELSE LET m == CHOOSE x \in S : \A y \in S : y = x \/ LexLess(x, y)
         IN  <<m>> \o SortNames(S \ {m})

\* Variant: sort=False, the groups stay in first-seen order.
RowIndexFirstSeen(d) == FirstSeenOrder(d)
\* Lines 117-123: pivot_table groups by the index keys and sorts the groups.
RowIndex(d) == SortPairs(PairsOf(d))

\* Lines 117-123: the columns are the platforms, sorted.
ColumnIndex(d) == SortNames(PlatformsOf(d))

\* Variant: aggfunc="last".
AggregateLast(d, pair, platform) ==
    IF Group(d, pair, platform) = {} THEN "MISSING"
    ELSE d[Max(Group(d, pair, platform))].status
\* Lines 121-122: aggfunc="first" over the group, fill_value where it is empty.
Aggregate(d, pair, platform) ==
    IF Group(d, pair, platform) = {} THEN "MISSING"
    ELSE d[Min(Group(d, pair, platform))].status

\* Variant: a cell without a record is rendered as PASS.
GlyphMissingAsPass(status) ==
    IF status \in DOMAIN EMOJI_MAP /\ status # "MISSING" THEN EMOJI_MAP[status]
    ELSE EMOJI_MAP["PASS"]
\* Line 130: .map(EMOJI_MAP).fillna(EMOJI_MAP["MISSING"])
Glyph(status) ==
    IF status \in DOMAIN EMOJI_MAP THEN EMOJI_MAP[status] ELSE EMOJI_MAP["MISSING"]

\* Lines 116-133.  The pivot: the platform columns, and the rows with their
\* S.No, classname, testcase and one cell per platform column.
build_pivot(d) ==
    LET index == RowIndex(d)
        columns == ColumnIndex(d)
    IN  [platforms |-> columns,
         rows |-> [i \in 1..Len(index) |->
                     [sno |-> i,
                      classname |-> index[i][1],
                      testcase |-> index[i][2],
                      cells |-> [p \in PlatformsOf(d) |->
                                    Glyph(Aggregate(d, index[i], p))]]]]

NoPivot == [platforms |-> <<>>, rows |-> <<>>]

\* Lines 138-165: the document holds the legend line and the rendered table.
generate_html(pv) == [legend |-> TRUE, table |-> pv]

NoHtml == [legend |-> FALSE, table |-> NoPivot]

-----------------------------------------------------------------------------
(* Report generator: main *)

ReportIdle ==
    /\ isdir = FALSE
    /\ xml_files = <<>>
    /\ rpc = "idle"
    /\ fileno = 0
    /\ records = <<>>
    /\ warnings = {}
    /\ df = <<>>
    /\ pivot = NoPivot
    /\ html = NoHtml
    /\ written = FALSE
    /\ exc = "none"
    /\ excStage = "none"
    /\ rexit = -1

ReportInit ==
    /\ isdir \in BOOLEAN
    /\ xml_files \in (IF isdir THEN SeqsOf(XmlFiles, 0, MaxXmlFiles) ELSE {<<>>})
    /\ rpc = "start"
    /\ fileno = 0
    /\ records = <<>>
    /\ warnings = {}
    /\ df = <<>>
    /\ pivot = NoPivot
    /\ html = NoHtml
    /\ written = FALSE
    /\ exc = "none"
    /\ excStage = "none"
    /\ rexit = -1

\* build_pivot applied to a data frame collect_results can return.
PivotInit ==
    /\ isdir = TRUE
    /\ xml_files = <<>>
    /\ rpc = "pivot"
    /\ fileno = 0
    /\ df \in SeqsOf(PivotRecords, 1, MaxRecords)
    /\ records = df
    /\ warnings = {}
    /\ pivot = NoPivot
    /\ html = NoHtml
    /\ written = FALSE
    /\ exc = "none"
    /\ excStage = "none"
    /\ rexit = -1

Raise(e, stage) ==
    /\ exc' = e
    /\ excStage' = stage
    /\ rpc' = "raised"

\* Lines 76-77.
RNotADirectory ==
    /\ rpc = "start"
    /\ ~isdir
    /\ Raise("NotADirectoryError", "collect_results")
    /\ UNCHANGED <<hvars, isdir, xml_files, fileno, records, warnings, df, pivot,
                   html, written, rexit>>

\* Lines 79-81.
RNoXmlFiles ==
    /\ rpc = "start"
    /\ isdir
    /\ xml_files = <<>>
    /\ Raise("FileNotFoundError", "collect_results")
    /\ UNCHANGED <<hvars, isdir, xml_files, fileno, records, warnings, df, pivot,
                   html, written, rexit>>

\* Line 83.
RBeginScan ==
    /\ rpc = "start"
    /\ isdir
    /\ xml_files # <<>>
    /\ records' = <<>>
    /\ rpc' = "scan"
    /\ UNCHANGED <<hvars, isdir, xml_files, fileno, warnings, df, pivot, html,
                   written, exc, excStage, rexit>>

\* Lines 84-106: one iteration of the loop over xml_files.
RParseFile ==
    /\ rpc = "scan"
    /\ fileno < Len(xml_files)
    /\ LET file == xml_files[fileno + 1]
       IN  /\ records' = parse_file(file, records)
           /\ warnings' = IF file.kind = "ok" THEN warnings
                          ELSE warnings \cup {fileno + 1}
    /\ fileno' = fileno + 1
    /\ UNCHANGED <<hvars, isdir, xml_files, rpc, df, pivot, html, written, exc,
                   excStage, rexit>>

\* Lines 108-109.
RNoRecords ==
    /\ rpc = "scan"
    /\ fileno = Len(xml_files)
    /\ records = <<>>
    /\ Raise("ValueError", "collect_results")
    /\ UNCHANGED <<hvars, isdir, xml_files, fileno, records, warnings, df, pivot,
                   html, written, rexit>>

\* Lines 111 and 174.
RCollected ==
    /\ rpc = "scan"
    /\ fileno = Len(xml_files)
    /\ records # <<>>
    /\ df' = records
    /\ rpc' = "pivot"
    /\ UNCHANGED <<hvars, isdir, xml_files, fileno, records, warnings, pivot, html,
                   written, exc, excStage, rexit>>

\* Line 175.
RBuildPivot ==
    /\ rpc = "pivot"
    /\ pivot' = build_pivot(df)
    /\ rpc' = "html"
    /\ UNCHANGED <<hvars, isdir, xml_files, fileno, records, warnings, df, html,
                   written, exc, excStage, rexit>>

\* Line 176.
RGenerateHtml ==
    /\ rpc = "html"
    /\ html' = generate_html(pivot)
    /\ rpc' = "write"
    /\ UNCHANGED <<hvars, isdir, xml_files, fileno, records, warnings, df, pivot,
                   written, exc, excStage, rexit>>

\* What open(args.output_file, "w") can raise: the parent directory does not
\* exist, a component of the path is a file, the path is a directory, the
\* path is not writable.
OpenErrors ==
    {"FileNotFoundError", "NotADirectoryError", "IsADirectoryError", "PermissionError"}

\* Lines 177-179, written.
RWriteOutput ==
    /\ rpc = "write"
    /\ written' = TRUE
    /\ rexit' = 0
    /\ rpc' = "exit"
    /\ UNCHANGED <<hvars, isdir, xml_files, fileno, records, warnings, df, pivot,
                   html, exc, excStage>>

\* Line 177, open raises.
ROpenFails ==
    /\ rpc = "write"
    /\ \E e \in OpenErrors : Raise(e, "open")
    /\ UNCHANGED <<hvars, isdir, xml_files, fileno, records, warnings, df, pivot,
                   html, written, rexit>>

\* Line 178, write raises (the device is full).
RWriteFails ==
    /\ rpc = "write"
    /\ Raise("OSError", "write")
    /\ UNCHANGED <<hvars, isdir, xml_files, fileno, records, warnings, df, pivot,
                   html, written, rexit>>

\* Lines 180-185: the exit code of the except clause that matches.
handler_exit(e) ==
    IF e \in {"NotADirectoryError", "FileNotFoundError", "ValueError"} THEN 1 ELSE 2

RExcept ==
    /\ rpc = "raised"
    /\ rexit' = handler_exit(exc)
    /\ rpc' = "exit"
    /\ UNCHANGED <<hvars, isdir, xml_files, fileno, records, warnings, df, pivot,
                   html, written, exc, excStage>>

ReportNext ==
    \/ RNotADirectory \/ RNoXmlFiles \/ RBeginScan \/ RParseFile \/ RNoRecords
    \/ RCollected \/ RBuildPivot \/ RGenerateHtml \/ RWriteOutput \/ ROpenFails
    \/ RWriteFails \/ RExcept

PivotNext == RBuildPivot

-----------------------------------------------------------------------------
(* Specifications *)

\* The header checker runs; the report generator is not started.
InitHeader == HeaderInit /\ ReportIdle

\* The report generator runs; the header checker is not started.
InitReport == HeaderIdle /\ ReportInit

\* build_pivot runs on a data frame; the header checker is not started.
InitPivot == HeaderIdle /\ PivotInit

SpecHeader == InitHeader /\ [][HeaderNext]_vars

SpecReport == InitReport /\ [][ReportNext]_vars

SpecPivot == InitPivot /\ [][PivotNext]_vars

-----------------------------------------------------------------------------
(* Header checker: properties *)

Returned == hpc = "done" /\ copyright_text # <<>>

FailuresToRead == {"mime_failure", "extract_failure"}

HasErrorLine(out) == \E i \in 1..Len(out.log) : out.log[i].level = "ERROR"

\* C1: when main returns (with a copyright text given), every listed file has
\* been through check_file and the value returned is the OR of the per-file
\* results: 0 iff every file passed, 1 iff some file failed, wherever it
\* stands in the list.
C1_ExitIsOrOfResults ==
    Returned =>
        /\ Len(history) = nfiles
        /\ hexit \in {0, 1}
        /\ (hexit = 0 <=> \A i \in 1..nfiles : history[i].ret = 0)
        /\ (hexit = 1 <=> \E i \in 1..nfiles : history[i].ret = 1)

\* The failing file comes first and a passing file comes last.
C1_Witness ==
    /\ Returned
    /\ nfiles >= 2
    /\ history[1].ret = 1
    /\ history[nfiles].ret = 0
    /\ hexit = 1

\* C2: for a non-empty file whose MIME type is detected and whose comments
\* are extracted, check_file returns 0 iff the comment text contains the
\* copyright text and the license text; otherwise it returns 1 and logs one
\* error that names exactly the missing parts.
C2_PassIffBothPresent ==
    (checked_files > 0 /\ FileKind(last.file) = "readable") =>
        LET text == JoinComments(last.file.comments)
            hasCopyright == Contains(text, copyright_text)
            hasLicense == Contains(text, LICENSE_TEXT)
            missing == (IF hasCopyright THEN {} ELSE {"copyright"})
                       \cup (IF hasLicense THEN {} ELSE {"license"})
        IN  /\ last.out.ret = (IF hasCopyright /\ hasLicense THEN 0 ELSE 1)
            /\ history[checked_files].ret = last.out.ret
            /\ (hasCopyright /\ hasLicense) => ~HasErrorLine(last.out)
            /\ ~(hasCopyright /\ hasLicense) =>
                   /\ Len(last.out.log) = 1
                   /\ last.out.log[1].level = "ERROR"
                   /\ {last.out.log[1].parts[k] : k \in 1..Len(last.out.log[1].parts)}
                          = missing

\* A file with the copyright text in its comments and no license text.
C2_Witness ==
    /\ checked_files > 0
    /\ FileKind(last.file) = "readable"
    /\ Contains(JoinComments(last.file.comments), copyright_text)
    /\ ~Contains(JoinComments(last.file.comments), LICENSE_TEXT)
    /\ last.out.ret = 1
    /\ last.out.log[1].parts = <<"license">>

\* C8: a file whose MIME type cannot be detected or whose comments cannot be
\* extracted gets the result 1 and an error line; the run goes on: when main
\* returns every file of the list has been checked, and the exit code is 1.
C8_ReadFailureIsNotFatal ==
    /\ \A i \in 1..Len(history) :
          history[i].kind \in FailuresToRead => history[i].ret = 1
    /\ (checked_files > 0 /\ FileKind(last.file) \in FailuresToRead) =>
          /\ HasErrorLine(last.out)
          /\ hpc \in {"loop", "done"}
          /\ ret = 1
    /\ (hpc = "loop" /\ \E i \in 1..Len(history) : history[i].kind \in FailuresToRead) =>
          /\ ret = 1
          /\ checked_files = Len(history)
    /\ (Returned /\ \E i \in 1..Len(history) : history[i].kind \in FailuresToRead) =>
          /\ checked_files = nfiles
          /\ Len(history) = nfiles
          /\ hexit = 1

\* The first file cannot be read, a later file is checked and passes.
C8_Witness ==
    /\ Returned
    /\ nfiles >= 2
    /\ history[1].kind \in FailuresToRead
    /\ history[nfiles].kind = "readable"
    /\ history[nfiles].ret = 0
    /\ history[nfiles].extract_called
    /\ hexit = 1

-----------------------------------------------------------------------------
(* Report generator: properties *)

\* C3: exit code 0 on success, 1 only for the three input errors that
\* collect_results raises, 2 for every other error, among them the errors
\* raised at opening or writing the output file.
C3_ExitCodes ==
    rpc = "exit" =>
        /\ rexit \in {0, 1, 2}
        /\ (rexit = 0 <=> (exc = "none" /\ written))
        /\ (rexit = 1 <=> (exc # "none" /\ excStage = "collect_results"))
        /\ (rexit = 2 <=> (exc # "none" /\ excStage # "collect_results"))

\* The files that ET.parse accepts.
WellFormed(files) == {i \in 1..Len(files) : files[i].kind = "ok"}

RECURSIVE Sum(_, _)
Sum(f, S) == IF S = {} THEN 0 ELSE LET x == CHOOSE x \in S : TRUE
                                   IN  f[x] + Sum(f, S \ {x})

\* Number of testcase elements of the well-formed files among the first n.
Offset(files, n) ==
    Sum([i \in 1..Len(files) |-> Len(files[i].testcases)],
        {i \in WellFormed(files) : i <= n})

Scanning == rpc = "scan"
Scanned == rpc \in {"pivot", "html", "write"} \/ (rpc = "scan" /\ fileno = Len(xml_files))

\* C7: every testcase element of a parsed file has exactly one record; its
\* status is FAIL if the element has a failure child (with or without a
\* skipped child), SKIPPED if it has a skipped child and no failure child,
\* PASS exactly when it has neither.
C7_StatusOfTestcase ==
    (Scanning \/ Scanned) =>
        /\ Len(records) = Offset(xml_files, fileno)
        /\ \A i \in WellFormed(xml_files) : i <= fileno =>
              \A k \in 1..Len(xml_files[i].testcases) :
                  LET tc == xml_files[i].testcases[k]
                      r == records[Offset(xml_files, i - 1) + k]
                  IN  /\ tc.failure => r.status = "FAIL"
                      /\ (tc.skipped /\ ~tc.failure) => r.status = "SKIPPED"
                      /\ (r.status = "PASS" <=> (~tc.failure /\ ~tc.skipped))

\* A testcase with both children has been recorded as FAIL.
C7_Witness ==
    /\ Scanned
    /\ \E i \in WellFormed(xml_files) : \E k \in 1..Len(xml_files[i].testcases) :
          /\ xml_files[i].testcases[k].failure
          /\ xml_files[i].testcases[k].skipped
          /\ records[Offset(xml_files, i - 1) + k].status = "FAIL"

\* C9: a file that fails to parse adds no record and does not stop the scan:
\* the records are those of the well-formed files, each file's records in
\* one block, in enumeration order; "No valid test results found" is raised
\* exactly when no record at all was collected.
C9_ParseFailureIsSkipped ==
    /\ (Scanning \/ Scanned) =>
          /\ Len(records) = Offset(xml_files, fileno)
          /\ \A i \in WellFormed(xml_files) : i <= fileno =>
                SubSeq(records, Offset(xml_files, i - 1) + 1, Offset(xml_files, i))
                    = records_of(xml_files[i].testcases, platform_of(xml_files[i].dir))
          /\ warnings = (1..fileno) \ WellFormed(xml_files)
    /\ Scanned => fileno = Len(xml_files)
    /\ rpc \in {"pivot", "html", "write"} =>
          /\ Offset(xml_files, Len(xml_files)) > 0
          /\ df = records
    /\ (rpc \in {"raised", "exit"} /\ exc = "ValueError" /\ excStage = "collect_results") =>
          /\ fileno = Len(xml_files)
          /\ Offset(xml_files, Len(xml_files)) = 0
    /\ (rpc \in {"raised", "exit"} /\ isdir /\ xml_files # <<>>
           /\ Offset(xml_files, Len(xml_files)) = 0) =>
          /\ exc = "ValueError"
          /\ excStage = "collect_results"
          /\ (rpc = "exit" => rexit = 1)

\* A well-formed file with a testcase is followed by a malformed file, and
\* the collection succeeded with the record of the first.
C9_Witness ==
    /\ rpc = "pivot"
    /\ Len(xml_files) = 2
    /\ xml_files[1].kind = "ok"
    /\ xml_files[2].kind = "malformed"
    /\ Len(records) = 1
    /\ Len(xml_files[1].testcases) = 1

-----------------------------------------------------------------------------
(* build_pivot: properties *)

PivotBuilt == rpc \in {"html", "write"} \/ (rpc = "exit" /\ exc = "none")

RowPair(r) == <<r.classname, r.testcase>>

\* The statuses recorded for a pair on a platform.
StatusesOf(d, pair, platform) == {d[i].status : i \in Group(d, pair, platform)}

\* Position in d of the first record of a pair.
FirstSeen(d, pair) ==
    Min({i \in 1..Len(d) : <<d[i].classname, d[i].testcase>> = pair})

\* C4, as claimed: when a pair has several records with different statuses
\* on one platform, the cell shows the status of the last of them.
C4_LastSeenWins ==
    PivotBuilt =>
        \A i \in 1..Len(pivot.rows) : \A p \in PlatformsOf(df) :
            Cardinality(StatusesOf(df, RowPair(pivot.rows[i]), p)) > 1 =>
                pivot.rows[i].cells[p]
                    = EMOJI_MAP[df[Max(Group(df, RowPair(pivot.rows[i]), p))].status]

\* C4, amended: when a pair has several records with different statuses on
\* one platform, the cell shows the status of the first of them.
C4_FirstSeenWins ==
    PivotBuilt =>
        \A i \in 1..Len(pivot.rows) : \A p \in PlatformsOf(df) :
            Cardinality(StatusesOf(df, RowPair(pivot.rows[i]), p)) > 1 =>
                pivot.rows[i].cells[p]
                    = EMOJI_MAP[df[Min(Group(df, RowPair(pivot.rows[i]), p))].status]

\* A pair recorded FAIL and then PASS on one platform shows the FAIL glyph.
C4_Witness ==
    /\ PivotBuilt
    /\ \E i \in 1..Len(pivot.rows) : \E p \in PlatformsOf(df) :
          LET g == Group(df, RowPair(pivot.rows[i]), p)
          IN  /\ Cardinality(g) > 1
              /\ df[Min(g)].status = "FAIL"
              /\ df[Max(g)].status = "PASS"
              /\ pivot.rows[i].cells[p] = EMOJI_MAP["FAIL"]

\* C5, as claimed: of two distinct pairs, the one whose first record was
\* collected earlier has the smaller row position and the smaller S.No.
C5_FirstSeenOrder ==
    PivotBuilt =>
        \A i, j \in 1..Len(pivot.rows) :
            FirstSeen(df, RowPair(pivot.rows[i])) < FirstSeen(df, RowPair(pivot.rows[j]))
                => (i < j /\ pivot.rows[i].sno < pivot.rows[j].sno)

\* C5, amended: the rows are in ascending order of (classname, testcase),
\* compared as strings, whatever the order of the records; of two distinct
\* pairs, the smaller has the smaller row position and the smaller S.No.
C5_SortedOrder ==
    PivotBuilt =>
        \A i, j \in 1..Len(pivot.rows) :
            PairLess(RowPair(pivot.rows[i]), RowPair(pivot.rows[j]))
                => (i < j /\ pivot.rows[i].sno < pivot.rows[j].sno)

\* Two pairs whose first records came in descending order, in ascending rows.
C5_Witness ==
    /\ PivotBuilt
    /\ Len(pivot.rows) >= 2
    /\ FirstSeen(df, RowPair(pivot.rows[2])) < FirstSeen(df, RowPair(pivot.rows[1]))
    /\ PairLess(RowPair(pivot.rows[1]), RowPair(pivot.rows[2]))
    /\ pivot.rows[1].sno = 1
    /\ pivot.rows[2].sno = 2

\* C6: one row per distinct pair, one status column per distinct platform;
\* a cell holds the glyph of a status recorded for its pair on its platform,
\* and the MISSING glyph exactly when there is no such record; S.No numbers
\* the rows 1..n.
C6_PivotShape ==
    PivotBuilt =>
        /\ df # <<>>
        /\ Len(pivot.rows) = Cardinality(PairsOf(df))
        /\ {RowPair(pivot.rows[i]) : i \in 1..Len(pivot.rows)} = PairsOf(df)
        /\ Len(pivot.platforms) = Cardinality(PlatformsOf(df))
        /\ {pivot.platforms[k] : k \in 1..Len(pivot.platforms)} = PlatformsOf(df)
        /\ \A i \in 1..Len(pivot.rows) :
              /\ pivot.rows[i].sno = i
              /\ DOMAIN pivot.rows[i].cells = PlatformsOf(df)
              /\ \A p \in PlatformsOf(df) :
                    LET recorded == StatusesOf(df, RowPair(pivot.rows[i]), p)
                        cell == pivot.rows[i].cells[p]
                    IN  /\ recorded # {} => cell \in {EMOJI_MAP[s] : s \in recorded}
                        /\ (cell = EMOJI_MAP["MISSING"] <=> recorded = {})

\* Two rows and two platform columns, with a MISSING cell and a cell whose
\* pair has two records on the platform.
C6_Witness ==
    /\ PivotBuilt
    /\ Len(pivot.rows) = 2
    /\ Len(pivot.platforms) = 2
    /\ \E i \in 1..2 : \E p \in PlatformsOf(df) :
          pivot.rows[i].cells[p] = EMOJI_MAP["MISSING"]
    /\ \E i \in 1..2 : \E p \in PlatformsOf(df) :
          Cardinality(Group(df, RowPair(pivot.rows[i]), p)) = 2

=============================================================================
